---- MODULE Spec2Model ----
(***************************************************************************)
(* Hazard/exposure impact functions of InaSAFE:                            *)
(*   VolcanoPolygonHazardPopulation.run                                    *)
(*     src/safe/impact_functions/volcanic/                                 *)
(*         volcano_population_evacuation_polygon_hazard.py                 *)
(*   FloodImpactFunction.run                                               *)
(*     src/impact_functions/flood/flood_population_impact.py               *)
(*                                                                         *)
(* Python floats and numpy float64 values are IEEE-754 doubles: every sum,  *)
(* difference, product and quotient is rounded to the nearest double, ties *)
(* to the even one.  Python lists are sequences indexed from 1, so a       *)
(* polygon_id is the Python id plus one.  Python dicts are functions on    *)
(* their key set.                                                          *)
(***************************************************************************)
EXTENDS Integers, Sequences, FiniteSets, TLC

VARIABLES
    loaded,           \* which call the behaviour exercises
    H,                \* volcano: the hazard layer object handed to run()
    E,                \* volcano: the exposure raster, one value per cell
    geo,              \* volcano: per cell, the hazard polygons containing it
    by_reference,     \* whether the layer accessor's get_data hands out its own buffer
    V,                \* volcano: the layer the last run returned, or NoLayer
    err,              \* the exception the last run ended with, or "none"
    rep,              \* volcano: what the last run computed on the way
    layers,           \* flood: the layer list handed to run()
    style_info,       \* flood: the imported module-level style dictionary
    R,                \* flood: the raster the last run returned, or NoLayer
    frep,             \* flood: what the last run computed on the way
    runs,             \* number of completed calls of run()
    ev,               \* needs: the evacuated counts under study
    needs             \* needs: the resource needs computed for ev

vars == <<loaded, H, E, geo, by_reference, V, err, rep,
          layers, style_info, R, frep, runs, ev, needs>>

(***************************************************************************)
(* Bounds of the model.                                                    *)
(***************************************************************************)
MaxPoly == 2
MaxRuns == 2
MaxEvac == 50

(***************************************************************************)
(* Python numbers.                                                         *)
(***************************************************************************)

\* the value of the one element of a singleton set; {F(x) : x \in {e}}
\* computes e once and hands its value to F
The(S) == CHOOSE r \in S : TRUE

\* natural numbers of any size: the limbs in base 2^15, lowest first, no
\* zero limb on top
B == 32768

Limb(a, i) == IF i <= Len(a) THEN a[i] ELSE 0

RECURSIVE NTrim(_)
NTrim(a) ==
    IF Len(a) = 0 THEN <<>>
    ELSE IF a[Len(a)] = 0 THEN NTrim(SubSeq(a, 1, Len(a) - 1))
    ELSE a

RECURSIVE NAddFrom(_, _, _, _)
NAddFrom(a, b, i, c) ==
    IF i > Len(a) /\ i > Len(b) THEN (IF c = 0 THEN <<>> ELSE <<c>>)
    ELSE <<(Limb(a, i) + Limb(b, i) + c) % B>>
         \o NAddFrom(a, b, i + 1, (Limb(a, i) + Limb(b, i) + c) \div B)

NAdd(a, b) == NAddFrom(a, b, 1, 0)

\* a - b for a >= b
RECURSIVE NSubFrom(_, _, _, _)
NSubFrom(a, b, i, c) ==
    IF i > Len(a) THEN <<>>
    ELSE <<(a[i] - Limb(b, i) - c + B) % B>>
         \o NSubFrom(a, b, i + 1, IF a[i] - Limb(b, i) - c < 0 THEN 1 ELSE 0)

NSub(a, b) == NTrim(NSubFrom(a, b, 1, 0))

\* n zero limbs
RECURSIVE Zeros(_)
Zeros(n) == IF n = 0 THEN <<>> ELSE <<0>> \o Zeros(n - 1)

\* a * k for one limb k
RECURSIVE NMulLimbFrom(_, _, _, _)
NMulLimbFrom(a, k, i, c) ==
    IF i > Len(a) THEN (IF c = 0 THEN <<>> ELSE <<c>>)
    ELSE <<(a[i] * k + c) % B>>
         \o NMulLimbFrom(a, k, i + 1, (a[i] * k + c) \div B)

RECURSIVE NMulFrom(_, _, _)
NMulFrom(a, b, j) ==
    IF j > Len(b) THEN <<>>
    ELSE IF b[j] = 0 THEN <<0>> \o NMulFrom(a, b, j + 1)
    ELSE NAdd(NMulLimbFrom(a, b[j], 1, 0), <<0>> \o NMulFrom(a, b, j + 1))

\* the number of zero limbs at the low end of a # 0, from limb i on
RECURSIVE ZeroLimbs(_, _)
ZeroLimbs(a, i) == IF a[i] = 0 THEN 1 + ZeroLimbs(a, i + 1) ELSE 0

\* a * b for a, b # 0: the product of the two without their low zero limbs,
\* moved up by as many limbs
NMulStripped(a, b, za, zb) ==
    Zeros(za + zb)
    \o NTrim(NMulFrom(SubSeq(a, za + 1, Len(a)), SubSeq(b, zb + 1, Len(b)), 1))

NMul(a, b) == NMulStripped(a, b, ZeroLimbs(a, 1), ZeroLimbs(b, 1))

\* a * 2^k and a \div 2^k
NShl(a, k) ==
    IF Len(a) = 0 THEN <<>>
    ELSE Zeros(k \div 15) \o NMulLimbFrom(a, 2 ^ (k % 15), 1, 0)

\* the limbs from i up of a \div (B^q * p) for p = 2^r, r < 15
RECURSIVE NShrFrom(_, _, _, _)
NShrFrom(a, q, p, i) ==
    IF i + q > Len(a) THEN <<>>
    ELSE <<(a[i + q] \div p) + (Limb(a, i + q + 1) % p) * (B \div p)>>
         \o NShrFrom(a, q, p, i + 1)

NShr(a, k) == NTrim(NShrFrom(a, k \div 15, 2 ^ (k % 15), 1))

\* bit k of a, the lowest being bit 0
NBit(a, k) == (Limb(a, (k \div 15) + 1) \div 2 ^ (k % 15)) % 2

\* a is a multiple of 2^k
NLowZero(a, k) ==
    /\ \A i \in 1..(k \div 15) : Limb(a, i) = 0
    /\ Limb(a, (k \div 15) + 1) % 2 ^ (k % 15) = 0

RECURSIVE BitLen(_)
BitLen(n) == IF n = 0 THEN 0 ELSE 1 + BitLen(n \div 2)

NBitLen(a) == IF Len(a) = 0 THEN 0 ELSE 15 * (Len(a) - 1) + BitLen(a[Len(a)])

\* the number of zero bits at the low end of a # 0
RECURSIVE LowZeros(_)
LowZeros(n) == IF n % 2 = 1 THEN 0 ELSE 1 + LowZeros(n \div 2)

RECURSIVE NLowZeros(_, _)
NLowZeros(a, i) ==
    IF a[i] = 0 THEN 15 + NLowZeros(a, i + 1) ELSE LowZeros(a[i])

\* -1, 0, 1 as a is below, equal to or above b
RECURSIVE NCmpAt(_, _, _)
NCmpAt(a, b, i) ==
    IF i = 0 THEN 0
    ELSE IF a[i] < b[i] THEN -1
    ELSE IF a[i] > b[i] THEN 1
    ELSE NCmpAt(a, b, i - 1)

NCmp(a, b) ==
    IF Len(a) < Len(b) THEN -1
    ELSE IF Len(a) > Len(b) THEN 1
    ELSE NCmpAt(a, b, Len(a))

\* <<the limbs from i up of a \div d, the remainder>> for one limb d
RECURSIVE NDivLimbAt(_, _, _)
NDivLimbAt(a, d, i) ==
    IF i > Len(a) THEN <<<<>>, 0>>
    ELSE The({<<<<(upper[2] * B + a[i]) \div d>> \o upper[1],
                (upper[2] * B + a[i]) % d>>
              : upper \in {NDivLimbAt(a, d, i + 1)}})

\* the largest q in lo..hi with q * d <= r
RECURSIVE NDigit(_, _, _, _)
NDigit(r, d, lo, hi) ==
    IF lo = hi THEN lo
    ELSE IF NCmp(NTrim(NMulLimbFrom(d, (lo + hi + 1) \div 2, 1, 0)), r) <= 0
    THEN NDigit(r, d, (lo + hi + 1) \div 2, hi)
    ELSE NDigit(r, d, lo, ((lo + hi + 1) \div 2) - 1)

NDivDigit(r, d, upper) ==
    The({<<<<q>> \o upper[1], NSub(r, NMulLimbFrom(d, q, 1, 0))>>
         : q \in {NDigit(r, d, 0, B - 1)}})

\* <<the limbs from i up of a \div d, the remainder>>: long division, the
\* highest limb first
RECURSIVE NDivAt(_, _, _)
NDivAt(a, d, i) ==
    IF i > Len(a) THEN <<<<>>, <<>>>>
    ELSE The({NDivDigit(NTrim(<<a[i]>> \o upper[2]), d, upper)
              : upper \in {NDivAt(a, d, i + 1)}})

RECURSIVE NFromInt(_)
NFromInt(n) == IF n = 0 THEN <<>> ELSE <<n % B>> \o NFromInt(n \div B)

RECURSIVE NToInt(_, _)
NToInt(a, i) == IF i > Len(a) THEN 0 ELSE a[i] + B * NToInt(a, i + 1)

(***************************************************************************)
(* IEEE-754 doubles: <<kind, sign, exp, man>> stands for sign * man *      *)
(* 2^exp, man a natural of at most 53 bits.                                *)
(***************************************************************************)
NaN == <<"nan", 1, 0, <<>>>>
Inf(s) == <<"inf", s, 0, <<>>>>
Zero == <<"num", 1, 0, <<>>>>
IsNaN(x) == x[1] = "nan"
IsZero(x) == x[1] = "num" /\ Len(x[4]) = 0

Max(a, b) == IF a > b THEN a ELSE b

\* s * n * 2^e, with something below the lowest bit of n when sticky,
\* rounded to the nearest double, ties to the even one
RoundShifted(s, n, e, sticky, sh) ==
    The({IF NBitLen(m) + e + sh > 1024 THEN Inf(s)
         ELSE IF NBitLen(m) = 54 THEN <<"num", s, e + sh + 1, NShr(m, 1)>>
         ELSE IF Len(m) = 0 THEN Zero
         ELSE <<"num", s, e + sh, m>>
         : m \in {IF NBit(n, sh - 1) = 1
                     /\ (~NLowZero(n, sh - 1) \/ sticky
                         \/ NBit(n, sh) = 1)
                  THEN NAdd(NShr(n, sh), <<1>>)
                  ELSE NShr(n, sh)}})

Round(s, n, e, sticky) ==
    IF Len(n) = 0 THEN Zero
    ELSE The({IF sh > 0 THEN RoundShifted(s, n, e, sticky, sh)
              ELSE IF NBitLen(n) + e > 1024 THEN Inf(s)
              ELSE <<"num", s, e + sh, NShl(n, -sh)>>
              : sh \in {Max(NBitLen(n) - 53, (-1074) - e)}})

Float(n) == Round(IF n < 0 THEN -1 ELSE 1,
                  NFromInt(IF n < 0 THEN -n ELSE n), 0, FALSE)

\* the magnitudes of x and y over the lower of the two exponents
Aligned(x, y) ==
    IF x[3] - y[3] > 60 THEN <<NShl(x[4], 4), <<1>>, x[3] - 4>>
    ELSE IF y[3] - x[3] > 60 THEN <<<<1>>, NShl(y[4], 4), y[3] - 4>>
    ELSE IF x[3] >= y[3] THEN <<NShl(x[4], x[3] - y[3]), y[4], y[3]>>
    ELSE <<x[4], NShl(y[4], y[3] - x[3]), x[3]>>

FAddNum(x, y) ==
    The({IF x[2] = y[2] THEN Round(x[2], NAdd(a[1], a[2]), a[3], FALSE)
         ELSE IF NCmp(a[1], a[2]) >= 0
         THEN Round(x[2], NSub(a[1], a[2]), a[3], FALSE)
         ELSE Round(y[2], NSub(a[2], a[1]), a[3], FALSE)
         : a \in {Aligned(x, y)}})

FAdd(x, y) ==
    IF IsNaN(x) \/ IsNaN(y) THEN NaN
    ELSE IF x[1] = "inf"
    THEN (IF y[1] = "inf" /\ y[2] # x[2] THEN NaN ELSE x)
    ELSE IF y[1] = "inf" THEN y
    ELSE IF IsZero(x) THEN y
    ELSE IF IsZero(y) THEN x
    ELSE FAddNum(x, y)

FNeg(x) == IF x[1] = "nan" \/ IsZero(x) THEN x ELSE <<x[1], -x[2], x[3], x[4]>>

FSub(x, y) == FAdd(x, FNeg(y))

FMul(x, y) ==
    IF IsNaN(x) \/ IsNaN(y) THEN NaN
    ELSE IF x[1] = "inf" \/ y[1] = "inf"
    THEN (IF IsZero(x) \/ IsZero(y) THEN NaN ELSE Inf(x[2] * y[2]))
    ELSE IF IsZero(x) \/ IsZero(y) THEN Zero
    ELSE Round(x[2] * y[2], NMul(x[4], y[4]), x[3] + y[3], FALSE)

\* x / y for numbers other than 0: the divisor without its low zero bits
\* is d; one limb is divided by directly
FDivBy(x, y, tz, d) ==
    IF Len(d) = 1
    THEN The({Round(x[2] * y[2], NTrim(qr[1]), x[3] - y[3] - tz - 75,
                    qr[2] # 0)
              : qr \in {NDivLimbAt(NShl(x[4], 75), d[1], 1)}})
    ELSE The({Round(x[2] * y[2], NTrim(qr[1]), x[3] - y[3] - 120,
                    Len(qr[2]) # 0)
              : qr \in {NDivAt(NShl(x[4], 120), y[4], 1)}})

FDiv(x, y) ==
    IF IsNaN(x) \/ IsNaN(y) THEN NaN
    ELSE IF x[1] = "inf"
    THEN (IF y[1] = "inf" THEN NaN ELSE Inf(x[2] * y[2]))
    ELSE IF y[1] = "inf" THEN Zero
    ELSE IF IsZero(y) THEN (IF IsZero(x) THEN NaN ELSE Inf(x[2]))
    ELSE IF IsZero(x) THEN Zero
    ELSE The({FDivBy(x, y, tz, NShr(y[4], tz))
              : tz \in {NLowZeros(y[4], 1)}})

\* -1, 0, 1 as the number x is below, equal to or above the number y
FCmpMag(x, y) ==
    IF NBitLen(x[4]) + x[3] < NBitLen(y[4]) + y[3] THEN -1
    ELSE IF NBitLen(x[4]) + x[3] > NBitLen(y[4]) + y[3] THEN 1
    ELSE IF x[3] >= y[3] THEN NCmp(NShl(x[4], x[3] - y[3]), y[4])
    ELSE NCmp(x[4], NShl(y[4], y[3] - x[3]))

FCmp(x, y) ==
    IF x[1] = "inf" THEN (IF y[1] = "inf" /\ y[2] = x[2] THEN 0 ELSE x[2])
    ELSE IF y[1] = "inf" THEN -y[2]
    ELSE IF IsZero(x) THEN (IF IsZero(y) THEN 0 ELSE -y[2])
    ELSE IF IsZero(y) THEN x[2]
    ELSE IF x[2] # y[2] THEN x[2]
    ELSE x[2] * FCmpMag(x, y)

FLess(x, y) == ~IsNaN(x) /\ ~IsNaN(y) /\ FCmp(x, y) < 0
FLeq(x, y) == ~IsNaN(x) /\ ~IsNaN(y) /\ FCmp(x, y) <= 0

Rat(n, d) == FDiv(Float(n), Float(d))

\* the exception int(x) raises on a float: ValueError on nan, OverflowError
\* on an infinity, "none" on a finite float
IntError(x) ==
    IF x[1] = "nan" THEN "ValueError"
    ELSE IF x[1] = "inf" THEN "OverflowError"
    ELSE "none"

\* int(x) of a float: truncation toward zero, and the name of the exception
\* in place of a value when int(x) raises
int(x) ==
    IF IntError(x) # "none" THEN IntError(x)
    ELSE IF x[3] >= 0 THEN x[2] * NToInt(NShl(x[4], x[3]), 1)
    ELSE x[2] * NToInt(NShr(x[4], -x[3]), 1)

\* numpy.sum over a short array: the entries added in order
RECURSIVE FSum(_, _)
FSum(s, k) == IF k = 0 THEN Zero ELSE FAdd(FSum(s, k - 1), s[k])

\* numpy.nanmax and numpy.nanmin
FMax(S) == CHOOSE x \in S : ~IsNaN(x) /\ \A y \in S : IsNaN(y) \/ FLeq(y, x)
FMin(S) == CHOOSE x \in S : ~IsNaN(x) /\ \A y \in S : IsNaN(y) \/ FLeq(x, y)

Range(s) == {s[i] : i \in DOMAIN s}

\* d[k] = v of a Python dict, whether or not k is a key already
Put(d, k, v) == (k :> v) @@ d

NoLayer == [name |-> "none"]

(***************************************************************************)
(* safe.common.utilities, safe.engine.interpolation and the layer          *)
(* accessors: collaborators of the two run() methods.                      *)
(***************************************************************************)

\* round_thousand: the nearest thousand, halves upward
round_thousand(n) == ((n + 500) \div 1000) * 1000

\* get_data(nan=fill, scaling=...): the layer's grid with NaN replaced by
\* the fill and, when scaling is asked for, multiplied by the layer's scale
get_data(layer, fill, scaling) ==
    [i \in DOMAIN layer.data |->
        IF IsNaN(layer.data[i]) THEN fill
        ELSE IF scaling THEN FMul(layer.data[i], layer.scaling)
        ELSE layer.data[i]]

\* the names of the attributes a vector layer's features carry
get_attribute_names(layer) ==
    IF Len(layer.data) = 0 THEN {} ELSE DOMAIN layer.data[1]

\* one circle per (centre, radius), tagged with the centre's attributes and
\* the radius in metres as 'Radius'
make_circular_polygon(centers, rad_m, attributes) ==
    [is_vector |-> TRUE,
     geometry |-> "polygon",
     name |-> "circles",
     centers |-> centers,
     data |-> [k \in 1..(Len(centers) * Len(rad_m)) |->
                 Put(attributes[((k - 1) \div Len(rad_m)) + 1],
                     "Radius", rad_m[((k - 1) % Len(rad_m)) + 1])]]

\* the spatial join: every exposure cell that lies in a hazard polygon
\* yields one sample carrying the cell's population and the id of the first
\* polygon, in input order, that contains it; other cells yield none.
SampleOf(cells, inside, c) ==
    [population |-> cells[c],
     polygon_id |-> CHOOSE p \in inside[c] : \A q \in inside[c] : p <= q]

RECURSIVE JoinUpTo(_, _, _)
JoinUpTo(cells, inside, c) ==
    IF c = 0 THEN <<>>
    ELSE IF inside[c] = {} THEN JoinUpTo(cells, inside, c - 1)
         ELSE Append(JoinUpTo(cells, inside, c - 1), SampleOf(cells, inside, c))

assign_hazard_values_to_exposure_data(cells, inside) ==
    JoinUpTo(cells, inside, Len(cells))

\* the thresholds below the last: lo + (i - 1) * step
RECURSIVE ClassesUpTo(_, _, _)
ClassesUpTo(lo, step, i) ==
    IF i = 0 THEN <<>>
    ELSE Append(ClassesUpTo(lo, step, i - 1),
                FAdd(lo, FMul(Float(i - 1), step)))

\* create_classes: num_classes thresholds rising evenly from the smallest to
\* the largest value, the last one the largest value itself (the contract
\* fixes the two ends and the order).
create_classes(values, num_classes) ==
    The({The({Append(ClassesUpTo(ends[1], step, num_classes - 1), ends[2])
              : step \in {FDiv(FSub(ends[2], ends[1]),
                               Float(num_classes - 1))}})
         : ends \in {<<FMin(Range(values)), FMax(Range(values))>>}})

\* create_classes fails on an empty or all-zero distribution
EmptyDistribution(values) ==
    \A i \in DOMAIN values : values[i] = Zero

(***************************************************************************)
(* VolcanoPolygonHazardPopulation                                          *)
(***************************************************************************)
target_field == "population"

\* parameters = {'distance [km]': [3, 5, 10]}
radii == <<3, 5, 10>>

KRB_names == <<"Kawasan Rawan Bencana III",
               "Kawasan Rawan Bencana II",
               "Kawasan Rawan Bencana I">>

colours == <<"#FFFFFF", "#38A800", "#79C900", "#CEED00",
             "#FFCC00", "#FF6600", "#FF0000", "#7A0000">>

\* rad_m = [x * 1000 for x in radii]
rad_m == [i \in DOMAIN radii |-> radii[i] * 1000]

\* key = name * 1000 for radii, the name itself for KRB labels
KeyOf(category_title, name) ==
    IF category_title = "Radius" THEN name * 1000 ELSE name

\* attr[target_field] = 0 for every polygon
ZeroAttributes(data) ==
    [i \in DOMAIN data |-> Put(data[i], target_field, Zero)]

\* categories[cat] = 0 for every category a polygon carries
ZeroCategories(data, category_title) ==
    [c \in {data[i][category_title] : i \in DOMAIN data} |-> Zero]

AddToEveryPolygon(new_attributes, poly_id, pop) ==
    [p \in DOMAIN new_attributes |->
        [new_attributes[p] EXCEPT ![target_field] = FAdd(@, pop)]]

\* new_attributes[poly_id][target_field] += pop
AddToPolygon(new_attributes, poly_id, pop) ==
    [new_attributes EXCEPT ![poly_id][target_field] = FAdd(@, pop)]

AddToEveryCategory(categories, cat, pop) ==
    [c \in DOMAIN categories |-> FAdd(categories[c], pop)]

\* categories[cat] += pop
AddToCategory(categories, cat, pop) ==
    [categories EXCEPT ![cat] = FAdd(@, pop)]

\* the loop over P.get_data()
\* one pass of the loop over P.get_data()
AccumulateOne(before, sample, category_title) ==
    [new_attributes |-> AddToPolygon(before.new_attributes,
                                     sample.polygon_id, sample.population),
     categories |-> AddToCategory(
                        before.categories,
                        before.new_attributes[sample.polygon_id][category_title],
                        sample.population)]

\* the loop over P.get_data()
RECURSIVE Accumulate(_, _, _, _, _)
Accumulate(P, k, new_attributes, categories, category_title) ==
    IF k = 0 THEN [new_attributes |-> new_attributes, categories |-> categories]
    ELSE The({AccumulateOne(before, P[k], category_title)
              : before \in {Accumulate(P, k - 1, new_attributes, categories,
                                       category_title)}})

\* categories.get(key, 0)
CategoryGet(categories, category_title, name) ==
    LET key == KeyOf(category_title, name)
    IN  IF key \in DOMAIN categories THEN categories[key] ELSE Zero

\* pop = round_thousand(int(categories.get(key, 0))), and the name of the
\* exception when int raises
PopOf(categories, category_title, name) ==
    The({IF IntError(v) # "none" THEN IntError(v) ELSE round_thousand(int(v))
         : v \in {CategoryGet(categories, category_title, name)}})

\* the exception of the loop over category_names from the i-th name on: that
\* of the first name whose total int() cannot convert, "none" without one
RECURSIVE PopErrorFrom(_, _, _, _)
PopErrorFrom(categories, category_title, category_names, i) ==
    IF i > Len(category_names) THEN "none"
    ELSE IF IntError(CategoryGet(categories, category_title,
                                 category_names[i])) # "none"
    THEN IntError(CategoryGet(categories, category_title, category_names[i]))
    ELSE PopErrorFrom(categories, category_title, category_names, i + 1)

CumStepNoAdd(cum, pop) == round_thousand(pop)

CumStepMinus(cum, pop) == round_thousand(cum - pop)

\* cum += pop; cum = round_thousand(cum)
CumStep(cum, pop) == round_thousand(cum + pop)

\* cum after the first i names of category_names
RECURSIVE CumAt(_, _, _, _)
CumAt(categories, category_title, category_names, i) ==
    IF i = 0 THEN 0
    ELSE CumStep(CumAt(categories, category_title, category_names, i - 1),
                 PopOf(categories, category_title, category_names[i]))

(***************************************************************************)
(* Needs per week (BNPB Perka 7/2008).                                     *)
(***************************************************************************)
\* rice = int(evacuated * 2.8)
rice(evacuated) == int(FMul(Float(evacuated), Rat(28, 10)))

\* drinking_water = int(evacuated * 17.5)
drinking_water(evacuated) == int(FMul(Float(evacuated), Rat(175, 10)))

\* water = int(evacuated * 67)
water(evacuated) == evacuated * 67

FamilyKitsRemainder(evacuated) == evacuated % 5

\* family_kits = int(evacuated / 5): evacuated is an int and / is Python 2's
\* floor division of ints
family_kits(evacuated) == evacuated \div 5

\* toilets = int(evacuated / 20)
toilets(evacuated) == evacuated \div 20

Needs(evacuated) ==
    [rice |-> rice(evacuated),
     drinking_water |-> drinking_water(evacuated),
     water |-> water(evacuated),
     family_kits |-> family_kits(evacuated),
     toilets |-> toilets(evacuated)]

(***************************************************************************)
(* VolcanoPolygonHazardPopulation.run                                      *)
(***************************************************************************)
NoRep ==
    [join_ran |-> FALSE, aggregated |-> FALSE, counted |-> FALSE,
     category_title |-> "", category_names |-> <<>>, volcano_names |-> {},
     P |-> <<>>, categories |-> <<>>, new_attributes |-> <<>>,
     total |-> 0, pops |-> <<>>, cums |-> <<>>, evacuated |-> 0,
     needs |-> Needs(0), classes |-> <<>>]

\* the names of the volcanos considered
VolcanoNames(layer, name_attribute) ==
    IF name_attribute \in get_attribute_names(layer)
    THEN {layer.data[i][name_attribute] : i \in DOMAIN layer.data}
    ELSE {"Not specified in data"}

StyleClassMaxBelow(classes, i) ==
    [min |-> IF i = 1 THEN Zero ELSE classes[i - 1],
     transparency |-> IF i = 1 THEN 100 ELSE 30,
     colour |-> colours[i],
     max |-> IF i = 1 THEN classes[1] ELSE classes[i - 1]]

\* one pass of the loop over xrange(len(colours))
StyleClass(classes, i) ==
    [min |-> IF i = 1 THEN Zero ELSE classes[i - 1],
     transparency |-> IF i = 1 THEN 100 ELSE 30,
     colour |-> colours[i],
     max |-> classes[i]]

\* the labels are renderings of (min, max) and are left out
StyleClasses(classes) ==
    [i \in 1..Len(colours) |-> StyleClass(classes, i)]

\* numpy.sum(E.get_data(nan=0)): the cells added up, no data as 0
ExposureSum(cells) ==
    FSum(get_data([data |-> cells, scaling |-> Float(1)], Zero, FALSE),
         Len(cells))

\* total = round_thousand(int(numpy.sum(E.get_data(nan=0)))), and the name
\* of the exception when int raises
TotalOf(cells) ==
    The({IF IntError(s) # "none" THEN IntError(s) ELSE round_thousand(int(s))
         : s \in {ExposureSum(cells)}})

\* the exception of lines 167-191: that of int() on the exposure total, else
\* that of the first category total int() cannot convert, else "none"
CountError(cells, categories, category_title, category_names) ==
    IF IntError(ExposureSum(cells)) # "none"
    THEN IntError(ExposureSum(cells))
    ELSE PopErrorFrom(categories, category_title, category_names, 1)

\* a run that int() ended at line 168 or 183: the accumulation is done, the
\* total is known when line 168 was passed, nothing else was recorded
VolcanoUncounted(start, cells, categories, new_attributes, Hafter, e) ==
    [err |-> e, V |-> NoLayer,
     rep |-> [start EXCEPT
                !.categories = categories,
                !.new_attributes = new_attributes,
                !.total = IF IntError(ExposureSum(cells)) # "none" THEN 0
                          ELSE TotalOf(cells)],
     Hdata |-> Hafter]

VolcanoFail(layer, e) ==
    [err |-> e, V |-> NoLayer, rep |-> NoRep, Hdata |-> layer.data]

\* lines 248-294: the style and the returned layer.  The report tables
\* attached to the layer are renderings of rep.
VolcanoStyled(done, Hafter, population_counts) ==
    IF EmptyDistribution(population_counts)
    THEN [err |-> "EmptyDistributionError", V |-> NoLayer, rep |-> done,
          Hdata |-> Hafter]
    ELSE The({
         [err |-> "none",
          V |-> [name |-> "Population affected by volcanic hazard zone",
                 data |-> done.new_attributes,
                 target_field |-> target_field,
                 style_classes |-> StyleClasses(classes),
                 style_type |-> "graduatedSymbol"],
          rep |-> [done EXCEPT !.classes = classes],
          Hdata |-> Hafter]
         : classes \in {create_classes(population_counts, Len(colours))}})

\* lines 167-203: totals, cumulative totals and needs
VolcanoCounted(start, cells, categories, new_attributes) ==
    The({[start EXCEPT
            !.counted = TRUE,
            !.categories = categories,
            !.new_attributes = new_attributes,
            !.total = TotalOf(cells),
            !.pops = [name \in Range(start.category_names) |->
                        PopOf(categories, start.category_title, name)],
            !.cums = [name \in Range(start.category_names) |->
                        cum[CHOOSE i \in DOMAIN cum :
                                start.category_names[i] = name]],
            !.evacuated = cum[Len(cum)],
            !.needs = Needs(cum[Len(cum)])]
         : cum \in {[i \in DOMAIN start.category_names |->
                       CumAt(categories, start.category_title,
                             start.category_names, i)]}})

\* lines 167-294: the report and the layer, from the accumulated totals
VolcanoReported(layer, cells, shared, start, acc) ==
    The({IF e # "none"
         THEN VolcanoUncounted(start, cells, acc.categories,
                               acc.new_attributes, Hafter, e)
         ELSE The({VolcanoStyled(done, Hafter, population_counts)
                   : done \in {VolcanoCounted(start, cells, acc.categories,
                                              acc.new_attributes)},
                     population_counts \in
                         {[i \in DOMAIN acc.new_attributes |->
                             acc.new_attributes[i][target_field]]}})
         : e \in {CountError(cells, acc.categories, start.category_title,
                             start.category_names)},
           Hafter \in {IF shared /\ layer.geometry = "polygon"
                       THEN acc.new_attributes ELSE layer.data}})

\* lines 139-165: the join and the aggregation
VolcanoJoined(layer, Hj, cells, shared, start, P) ==
    The({VolcanoReported(layer, cells, shared, [start EXCEPT !.P = P], acc)
         : acc \in {Accumulate(P, Len(P), ZeroAttributes(Hj.data),
                               ZeroCategories(Hj.data, start.category_title),
                               start.category_title)}})

VolcanoAggregated(layer, Hj, cells, inside, shared, start) ==
    The({VolcanoJoined(layer, Hj, cells, shared, start, P)
         : P \in {assign_hazard_values_to_exposure_data(cells, inside)}})

\* lines 91-137: the polygons to join with, then the category check
VolcanoChecked(layer, Hj, cells, inside, shared, point) ==
    IF (IF point THEN "Radius" ELSE "KRB") \notin get_attribute_names(Hj)
    THEN VolcanoFail(layer, "InaSAFEError")
    ELSE The({VolcanoAggregated(layer, Hj, cells, inside, shared, start)
              : start \in {[NoRep EXCEPT
                  !.join_ran = TRUE, !.aggregated = TRUE,
                  !.category_title = IF point THEN "Radius" ELSE "KRB",
                  !.category_names = IF point THEN radii ELSE KRB_names,
                  !.volcano_names =
                      VolcanoNames(Hj, IF point THEN "NAME" ELSE "GUNUNG")]}})

\* run(layers) for the hazard layer, the exposure cells and the polygons
\* containing each cell; shared tells whether H.get_data() is the layer's
\* own list of records.  Hdata is the hazard layer's records afterwards.
VolcanoRunResult(layer, cells, inside, shared) ==
    IF ~layer.is_vector THEN VolcanoFail(layer, "Exception")
    ELSE IF layer.geometry \notin {"polygon", "point"}
    THEN VolcanoFail(layer, "Exception")
    ELSE IF layer.geometry = "point"
    THEN The({VolcanoChecked(layer, Hj, cells, inside, shared, TRUE)
              : Hj \in {make_circular_polygon(layer.centers, rad_m,
                                              layer.data)}})
    ELSE VolcanoChecked(layer, layer, cells, inside, shared, FALSE)

(***************************************************************************)
(* FloodImpactFunction.run                                                 *)
(***************************************************************************)

\* Depth above which people are regarded affected [m]
threshold == Rat(1, 10)

pixel_area == 2500

\* the resolution below which the exposure is the legacy density set
resolution_cutoff == Rat(5, 10000)

\* impact_functions.styles.flood_population_style as imported
flood_population_style == [legend_title |-> "None"]

\* the first hazard layer of the list
get_hazard_layer(ls) ==
    ls[CHOOSE i \in DOMAIN ls :
          /\ ls[i].keywords["category"] = "hazard"
          /\ \A j \in 1..(i - 1) : ls[j].keywords["category"] # "hazard"]

\* the positions of the exposure layers of the list, in order
RECURSIVE ExposureIndices(_, _)
ExposureIndices(ls, k) ==
    IF k = 0 THEN <<>>
    ELSE IF ls[k].keywords["category"] = "exposure"
         THEN Append(ExposureIndices(ls, k - 1), k)
         ELSE ExposureIndices(ls, k - 1)

get_exposure_layers(ls) == ExposureIndices(ls, Len(ls))

\* 'ratio' in datatype: the substring test on the keyword's string
ContainsRatio(datatype) ==
    \E i \in 1..(Len(datatype) - 4) : SubSeq(datatype, i, i + 4) = "ratio"

NoFlood == [name |-> "none"]

LookAtAnyUnit(found, ls, i) ==
    IF found.err # "none" THEN found
    ELSE IF "datatype" \notin DOMAIN ls[i].keywords
    THEN [found EXCEPT !.population = i]
    ELSE IF ~ContainsRatio(ls[i].keywords["datatype"])
    THEN [found EXCEPT !.population = i]
    ELSE [found EXCEPT !.gender_ratio_unit = ls[i].keywords["unit"],
                       !.gender_ratio = i]

FoundNothing ==
    [population |-> 0, gender_ratio |-> 0, gender_ratio_unit |-> "",
     err |-> "none"]

\* one pass of the loop over get_exposure_layers(layers); population and
\* gender_ratio are positions in the layer list, 0 for None
LookAt(found, ls, i) ==
    IF found.err # "none" THEN found
    ELSE IF "datatype" \notin DOMAIN ls[i].keywords
    THEN [found EXCEPT !.population = i]
    ELSE IF ~ContainsRatio(ls[i].keywords["datatype"])
    THEN [found EXCEPT !.population = i]
    ELSE IF ls[i].keywords["unit"] \notin {"percent", "ratio"}
    THEN [found EXCEPT !.gender_ratio_unit = ls[i].keywords["unit"],
                       !.err = "RuntimeError"]
    ELSE [found EXCEPT !.gender_ratio_unit = ls[i].keywords["unit"],
                       !.gender_ratio = i]

RECURSIVE FindLayers(_, _, _)
FindLayers(ls, exposure, k) ==
    IF k = 0 THEN FoundNothing
    ELSE The({LookAt(found, ls, exposure[k])
              : found \in {FindLayers(ls, exposure, k - 1)}})

WhereAtOrAbove(D, P, i) == IF FLeq(threshold, D[i]) THEN P[i] ELSE Zero

\* numpy.where(D > threshold, P, 0)
Where(D, P, i) == IF FLess(threshold, D[i]) THEN P[i] ELSE Zero

ImpactTimesArea(D, P, legacy) ==
    [i \in DOMAIN P |->
        IF legacy THEN FMul(Where(D, P, i), Float(pixel_area))
        ELSE Where(D, P, i)]

\* I = numpy.where(D > threshold, P, 0) / 100000.0 * pixel_area   (legacy)
\* I = numpy.where(D > threshold, P, 0)                           (scaled)
Impact(D, P, legacy) ==
    [i \in DOMAIN P |->
        IF legacy
        THEN FMul(FDiv(Where(D, P, i), Float(100000)), Float(pixel_area))
        ELSE Where(D, P, i)]

GenderRatioAsRead(layer, unit) == get_data(layer, Zero, FALSE)

\* G = gender_ratio.get_data(nan=0.0); if unit == 'percent': G /= 100
GenderRatio(layer, unit) ==
    [i \in DOMAIN layer.data |->
        IF unit = "percent"
        THEN FDiv(get_data(layer, Zero, FALSE)[i], Float(100))
        ELSE get_data(layer, Zero, FALSE)[i]]

\* numpy.sum(A) / 1000
PerThousand(A) == FDiv(FSum(A, Len(A)), Float(1000))

\* str(int(numpy.sum(A) / 1000)), and the name of the exception when int
\* raises
Thousands(A) == int(PerThousand(A))

\* the exception of lines 100-132: that of the first of total, count,
\* affected_female and affected_male that int() cannot convert, else "none"
ReportError(found, P, I, female, male) ==
    IF IntError(PerThousand(P)) # "none" THEN IntError(PerThousand(P))
    ELSE IF IntError(PerThousand(I)) # "none" THEN IntError(PerThousand(I))
    ELSE IF found.gender_ratio = 0 THEN "none"
    ELSE IF IntError(PerThousand(female[2])) # "none"
    THEN IntError(PerThousand(female[2]))
    ELSE IntError(PerThousand(male[2]))

\* P_female = P * G and I_female = I * G
Female(A, G) == [i \in DOMAIN G |-> FMul(A[i], G[i])]

\* P_male = P - P_female and I_male = I - I_female
Male(A, A_female) == [i \in DOMAIN A_female |-> FSub(A[i], A_female[i])]

\* lines 99-218: the report and the raster
FloodWritten(ls, found, style, shared, legacy, D, P, I, G, female, male) ==
    [err |-> "none",
     R |-> [name |-> "Penduduk yang terdampak",
            data |-> I,
            keywords |->
                [total |-> Thousands(P),
                 count |-> Thousands(I),
                 affected_female |->
                    IF found.gender_ratio = 0 THEN "None"
                    ELSE Thousands(female[2]),
                 affected_male |->
                    IF found.gender_ratio = 0 THEN "None"
                    ELSE Thousands(male[2]),
                 map_title |-> "Penduduk yang Mungkin dievakuasi"],
            style_info |-> Put(style, "legend_title", "Kepadatan Penduduk")],
     frep |-> [name |-> "run", legacy |-> legacy,
               population |-> found.population,
               gender_ratio |-> found.gender_ratio,
               gender_ratio_unit |-> found.gender_ratio_unit,
               D |-> D, P |-> P, I |-> I, G |-> G,
               P_female |-> female[1], P_male |-> male[1],
               I_female |-> female[2], I_male |-> male[2]],
     layers |-> IF shared /\ found.gender_ratio # 0
                THEN [ls EXCEPT ![found.gender_ratio].data = G]
                ELSE ls,
     style_info |-> Put(style, "legend_title", "Kepadatan Penduduk")]

FloodFail(ls, style, e) ==
    [err |-> e, R |-> NoLayer, frep |-> NoFlood, layers |-> ls,
     style_info |-> style]

\* lines 86-132: the gender breakdown, then the report unless int() raises
\* on one of its figures; the ratio grid is divided in place by then
FloodReported(ls, found, style, shared, legacy, D, P, I, G) ==
    The({The({IF ReportError(found, P, I, female, male) # "none"
              THEN FloodFail(IF shared /\ found.gender_ratio # 0
                             THEN [ls EXCEPT ![found.gender_ratio].data = G]
                             ELSE ls,
                             style,
                             ReportError(found, P, I, female, male))
              ELSE FloodWritten(ls, found, style, shared, legacy, D, P, I, G,
                                female, male)
              : male \in {<<Male(P, female[1]), Male(I, female[2])>>}})
         : female \in {<<Female(P, G), Female(I, G)>>}})

\* lines 69-84: the impact grid
FloodImpacted(ls, found, style, shared, legacy) ==
    The({The({FloodReported(ls, found, style, shared, legacy, D, P, I, G)
              : I \in {Impact(D, P, legacy)},
                G \in {IF found.gender_ratio = 0 THEN <<>>
                       ELSE GenderRatio(ls[found.gender_ratio],
                                        found.gender_ratio_unit)}})
         : D \in {get_data(get_hazard_layer(ls), Zero, FALSE)},
           P \in {get_data(ls[found.population], Zero, ~legacy)}})

\* run(layers) for the layer list and the imported style dictionary; shared
\* tells whether get_data() hands out the layer's own buffer
FloodRunResult(ls, style, shared) ==
    The({IF found.err # "none" THEN FloodFail(ls, style, found.err)
         ELSE IF found.population = 0 THEN FloodFail(ls, style, "RuntimeError")
         ELSE FloodImpacted(ls, found, style, shared,
                  FLess(ls[found.population].resolution, resolution_cutoff))
         : found \in {FindLayers(ls, get_exposure_layers(ls),
                                 Len(get_exposure_layers(ls)))}})

(***************************************************************************)
(* The inputs a volcano call is exercised on.                              *)
(***************************************************************************)
KRB_labels == Range(KRB_names)

PolygonLayers ==
    UNION {
        {[is_vector |-> TRUE, geometry |-> "polygon", name |-> "krb",
          centers |-> <<>>,
          data |-> [i \in 1..n |-> [KRB |-> cat[i], GUNUNG |-> "Merapi"]]]
            : cat \in [1..n -> KRB_labels]}
        \cup
        {[is_vector |-> TRUE, geometry |-> "polygon", name |-> "zones",
          centers |-> <<>>,
          data |-> [i \in 1..n |-> [GUNUNG |-> "Merapi"]]]}
        : n \in 1..MaxPoly}

PointLayers ==
    {[is_vector |-> TRUE, geometry |-> "point", name |-> "vents",
      centers |-> <<1>>, data |-> <<a>>]
        : a \in {[NAME |-> "Merapi"], [ID |-> "v1"]}}

OtherLayers ==
    {[is_vector |-> FALSE, geometry |-> "raster", name |-> "grid",
      centers |-> <<>>, data |-> <<>>],
     [is_vector |-> TRUE, geometry |-> "line", name |-> "rivers",
      centers |-> <<>>, data |-> <<[KRB |-> "Kawasan Rawan Bencana I"]>>]}

HazardLayers == PolygonLayers \cup PointLayers \cup OtherLayers

\* the exposure grids, three cells each: whole numbers of people;
\* fractional numbers whose sum depends on the order of the additions
\* (110.1 + 233.2 + 156.7 is 499.99999999999994, 110.1 + (233.2 + 156.7)
\* is 500.0); a cell without data; an infinite cell
ExposureGrids ==
    {<<Float(1500), Float(700), Float(1500)>>,
     <<Rat(1101, 10), Rat(2332, 10), Rat(1567, 10)>>,
     <<NaN, Float(700), Float(1500)>>,
     <<Inf(1), Float(700), Float(1500)>>}

\* the sets of hazard polygons a cell can lie in: a cell within one radius
\* of a vent is within every larger one; hazard zones do not overlap
InsideSets(layer) ==
    IF layer.geometry = "point"
    THEN {b..Len(radii) : b \in 1..(Len(radii) + 1)}
    ELSE IF layer.geometry = "polygon"
    THEN {{}} \cup {{p} : p \in 1..Len(layer.data)}
    ELSE {{}}

VolcanoInit ==
    /\ loaded = "volcano"
    /\ H \in HazardLayers
    /\ E \in ExposureGrids
    /\ geo \in [DOMAIN E -> InsideSets(H)]
    /\ by_reference \in BOOLEAN
    /\ V = NoLayer
    /\ err = "none"
    /\ rep = NoRep
    /\ layers = <<>>
    /\ style_info = flood_population_style
    /\ R = NoLayer
    /\ frep = NoFlood
    /\ runs = 0
    /\ ev = <<0, 0>>
    /\ needs = <<>>

VolcanoRun ==
    /\ loaded = "volcano"
    /\ \E r \in {VolcanoRunResult(H, E, geo, by_reference)} :
           /\ H' = [H EXCEPT !.data = r.Hdata]
           /\ V' = r.V
           /\ err' = r.err
           /\ rep' = r.rep
    /\ UNCHANGED <<loaded, E, geo, by_reference, layers, style_info, R, frep,
                   runs, ev, needs>>

SpecVolcano == VolcanoInit /\ [][VolcanoRun]_vars

(***************************************************************************)
(* The inputs a flood call is exercised on.                                *)
(***************************************************************************)
MaxGrid == 1
MaxExposure == 2

\* a cell of the depth grid: no data, 0.1 m, 0.15 m
DepthValues == {NaN, Rat(1, 10), Rat(3, 20)}

\* a cell of the population grid: no data, 50, 19, infinite
FloodPopValues == {NaN, Float(50), Float(19), Inf(1)}

\* the legacy density set, and a generic set at the cutoff resolution that
\* carries a datatype and a scale
PopulationHeaders ==
    {[keywords |-> [category |-> "exposure"],
      resolution |-> Rat(4, 10000), scaling |-> Float(1)],
     [keywords |-> [category |-> "exposure", datatype |-> "density"],
      resolution |-> Rat(5, 10000), scaling |-> Float(4)]}

RatioHeaders ==
    {[keywords |-> [category |-> "exposure", datatype |-> d[1], unit |-> d[2]],
      resolution |-> Rat(5, 10000), scaling |-> Float(1)]
        : d \in {<<"female_ratio", "percent">>, <<"female_ratio", "ratio">>,
                 <<"male_ratio", "fraction">>}}

\* a gender-ratio grid holds 52 when in percent and 0.45 otherwise
RatioValue(header) ==
    IF header.keywords["unit"] = "percent" THEN Float(52) ELSE Rat(9, 20)

WithData(header, grid) ==
    [keywords |-> header.keywords, resolution |-> header.resolution,
     scaling |-> header.scaling, data |-> grid]

ExposureLayer(header, popgrid) ==
    IF header \in RatioHeaders
    THEN WithData(header, [i \in DOMAIN popgrid |-> RatioValue(header)])
    ELSE WithData(header, popgrid)

InundationLayer(depthgrid) ==
    WithData([keywords |-> [category |-> "hazard", unit |-> "m"],
              resolution |-> Rat(5, 10000), scaling |-> Float(1)], depthgrid)

FloodInit ==
    /\ loaded = "flood"
    /\ \E depthgrid \in [1..MaxGrid -> DepthValues],
          people \in FloodPopValues,
          n \in 0..MaxExposure :
          \E headers \in [1..n -> PopulationHeaders \cup RatioHeaders] :
              layers = <<InundationLayer(depthgrid)>> \o
                       [i \in 1..n |->
                           ExposureLayer(headers[i],
                                         [c \in 1..MaxGrid |-> people])]
    /\ style_info = flood_population_style
    /\ by_reference \in BOOLEAN
    /\ H = NoLayer
    /\ E = <<>>
    /\ geo = <<>>
    /\ V = NoLayer
    /\ err = "none"
    /\ rep = NoRep
    /\ R = NoLayer
    /\ frep = NoFlood
    /\ runs = 0
    /\ ev = <<0, 0>>
    /\ needs = <<>>

FloodRun ==
    /\ loaded = "flood"
    /\ runs < MaxRuns
    /\ \E r \in {FloodRunResult(layers, style_info, by_reference)} :
           /\ layers' = r.layers
           /\ style_info' = r.style_info
           /\ R' = r.R
           /\ err' = r.err
           /\ frep' = r.frep
    /\ runs' = runs + 1
    /\ UNCHANGED <<loaded, H, E, geo, by_reference, V, rep, ev, needs>>

SpecFlood == FloodInit /\ [][FloodRun]_vars

(***************************************************************************)
(* The needs calculation on its own, for two evacuated counts.             *)
(***************************************************************************)
EvacuatedCounts == (-MaxEvac)..MaxEvac \cup {1000, 11000}

NeedsInit ==
    /\ loaded = "needs"
    /\ ev \in EvacuatedCounts \X EvacuatedCounts
    /\ ev[1] <= ev[2]
    /\ needs = <<>>
    /\ H = NoLayer
    /\ E = <<>>
    /\ geo = <<>>
    /\ by_reference = TRUE
    /\ V = NoLayer
    /\ err = "none"
    /\ rep = NoRep
    /\ layers = <<>>
    /\ style_info = flood_population_style
    /\ R = NoLayer
    /\ frep = NoFlood
    /\ runs = 0

ComputeNeeds ==
    /\ loaded = "needs"
    /\ needs = <<>>
    /\ needs' = <<Needs(ev[1]), Needs(ev[2])>>
    /\ UNCHANGED <<loaded, H, E, geo, by_reference, V, err, rep, layers,
                   style_info, R, frep, runs, ev>>

SpecNeeds == NeedsInit /\ [][ComputeNeeds]_vars

(***************************************************************************)
(* Both impact functions and the needs calculation.                        *)
(***************************************************************************)
Init == VolcanoInit \/ FloodInit \/ NeedsInit

Next == VolcanoRun \/ FloodRun \/ ComputeNeeds

Spec == Init /\ [][Next]_vars

(***************************************************************************)
(* Properties.                                                             *)
(***************************************************************************)

\* categories.get(key, 0) for a name of the category list
CategoryTotal(name) ==
    IF KeyOf(rep.category_title, name) \in DOMAIN rep.categories
    THEN rep.categories[KeyOf(rep.category_title, name)]
    ELSE Zero

NameAt(i) == rep.category_names[i]

RECURSIVE SumOfPops(_)
SumOfPops(i) == IF i = 0 THEN 0 ELSE SumOfPops(i - 1) + rep.pops[NameAt(i)]

\* C1: in a run that got through the loop over the category names, the
\* cumulative value recorded for a category is the cumulative value of the
\* category before it plus the thousand-rounded total of the category, with
\* no other adjustment, and the last cumulative value is the evacuated
\* count.
C1_CumulativeIsRoundThenAdd ==
    rep.counted =>
        /\ \A i \in DOMAIN rep.category_names :
              rep.cums[NameAt(i)] =
                  (IF i = 1 THEN 0 ELSE rep.cums[NameAt(i - 1)])
                  + round_thousand(int(CategoryTotal(NameAt(i))))
        /\ rep.evacuated = rep.cums[NameAt(Len(rep.category_names))]

\* a run in which a later category adds to a cumulative value that is
\* already positive, and whose totals are not all multiples of a thousand
C1_Witness ==
    /\ rep.counted
    /\ err = "none"
    /\ \E i \in DOMAIN rep.category_names :
          /\ i > 1
          /\ rep.cums[NameAt(i - 1)] > 0
          /\ rep.cums[NameAt(i)] > rep.cums[NameAt(i - 1)]
          /\ int(CategoryTotal(NameAt(i))) % 1000 # 0

\* C2: the cumulative totals a run recorded never decrease along the
\* category list, and the final cumulative value is the rounded sum of the
\* recorded per-category rounded totals.
C2_CumulativeNonDecreasing ==
    rep.counted =>
        /\ \A i \in DOMAIN rep.category_names :
              i > 1 => rep.cums[NameAt(i - 1)] <= rep.cums[NameAt(i)]
        /\ rep.cums[NameAt(Len(rep.category_names))] =
              round_thousand(SumOfPops(Len(rep.category_names)))

\* a run with two populated categories
C2_Witness ==
    /\ rep.counted
    /\ \E i, j \in DOMAIN rep.category_names :
          /\ i < j
          /\ rep.pops[NameAt(i)] > 0
          /\ rep.pops[NameAt(j)] > 0
          /\ rep.evacuated >= rep.pops[NameAt(i)] + rep.pops[NameAt(j)]

\* the flood run returned a raster
FloodReturned == loaded = "flood" /\ R # NoLayer

\* C3: in either branch the impact of a cell is never negative and never
\* above the population value of the cell.
C3_ImpactWithinPopulation ==
    FloodReturned =>
        \A i \in DOMAIN R.data :
            /\ FLeq(Zero, R.data[i])
            /\ FLeq(R.data[i], frep.P[i])

\* a legacy-density run with an affected, populated cell
C3_Witness ==
    /\ FloodReturned
    /\ frep.legacy
    /\ \E i \in DOMAIN R.data :
          FLess(Zero, R.data[i]) /\ FLess(R.data[i], frep.P[i])

\* C4: a cell at or below 0.1 m has impact 0; above 0.1 m the impact is
\* population x 2500 / 100000 when the resolution is below 0.0005 and the
\* scaled population itself otherwise.
C4_ImpactByDepthAndResolution ==
    FloodReturned =>
        \A i \in DOMAIN R.data :
            /\ FLeq(frep.D[i], Rat(1, 10)) => R.data[i] = Zero
            /\ FLess(Rat(1, 10), frep.D[i]) =>
                  IF FLess(layers[frep.population].resolution, Rat(5, 10000))
                  THEN R.data[i] = FMul(FDiv(frep.P[i], Float(100000)),
                                        Float(pixel_area))
                  ELSE R.data[i] = frep.P[i]

\* a populated cell whose depth is exactly the threshold
C4_Witness ==
    /\ FloodReturned
    /\ \E i \in DOMAIN R.data :
          frep.D[i] = Rat(1, 10) /\ FLess(Zero, frep.P[i])

\* a \div b truncated toward zero
TruncDiv(a, b) == IF a >= 0 THEN a \div b ELSE -((-a) \div b)

\* the needs were computed
NeedsComputed == loaded = "needs" /\ needs # <<>>

\* C5 as claimed: for every integer evacuated count the five needs are
\* evacuated x 2.8, x 17.5, x 67, / 5 and / 20, each truncated toward zero.
C5_NeedsTruncateTowardZero ==
    NeedsComputed =>
        \A k \in 1..2 :
            /\ needs[k].rice = TruncDiv(ev[k] * 28, 10)
            /\ needs[k].drinking_water = TruncDiv(ev[k] * 175, 10)
            /\ needs[k].water = ev[k] * 67
            /\ needs[k].family_kits = TruncDiv(ev[k], 5)
            /\ needs[k].toilets = TruncDiv(ev[k], 20)

NeedsLeq(a, b) ==
    /\ a.rice <= b.rice
    /\ a.drinking_water <= b.drinking_water
    /\ a.water <= b.water
    /\ a.family_kits <= b.family_kits
    /\ a.toilets <= b.toilets

\* C6: each need is non-decreasing in the evacuated count and non-negative
\* for a non-negative count.
C6_NeedsMonotone ==
    NeedsComputed =>
        /\ ev[1] <= ev[2] => NeedsLeq(needs[1], needs[2])
        /\ \A k \in 1..2 : ev[k] >= 0 => NeedsLeq(Needs(0), needs[k])

\* two counts one apart, the larger one a multiple of five
C6_Witness ==
    /\ NeedsComputed
    /\ ev[1] = 44
    /\ ev[2] = 45

\* the polygons that carry the category of a name
PolygonsOf(name) ==
    {p \in DOMAIN rep.new_attributes :
        rep.new_attributes[p][rep.category_title]
            = KeyOf(rep.category_title, name)}

\* C7: after aggregation and the loop over the category names, every name
\* of the category list has a total and a cumulative entry, and the total is
\* zero when no joined sample fell in a polygon of the category or no polygon
\* carries it.
C7_EveryCategoryHasEntry ==
    rep.counted =>
        \A i \in DOMAIN rep.category_names :
            /\ NameAt(i) \in DOMAIN rep.pops
            /\ NameAt(i) \in DOMAIN rep.cums
            /\ PolygonsOf(NameAt(i)) = {} => rep.pops[NameAt(i)] = 0
            /\ (\A k \in DOMAIN rep.P :
                    rep.P[k].polygon_id \notin PolygonsOf(NameAt(i)))
                  => rep.pops[NameAt(i)] = 0

\* a run with a populated category, a category whose polygon caught no
\* sample and a category no polygon carries
C7_Witness ==
    /\ rep.counted
    /\ \E i, j, k \in DOMAIN rep.category_names :
          /\ rep.pops[NameAt(i)] > 0
          /\ PolygonsOf(NameAt(j)) # {}
          /\ \A s \in DOMAIN rep.P :
                rep.P[s].polygon_id \notin PolygonsOf(NameAt(j))
          /\ PolygonsOf(NameAt(k)) = {}

\* the volcano run returned a layer
VolcanoReturned == loaded = "volcano" /\ V # NoLayer

\* C8: the style has exactly as many classes as colours, eight; the first
\* class starts at 0, the thresholds never decrease, and the last class
\* ends at the largest per-polygon population.
C8_StyleClasses ==
    VolcanoReturned =>
        /\ Len(V.style_classes) = Len(colours)
        /\ Len(V.style_classes) = 8
        /\ V.style_classes[1].min = Zero
        /\ \A i \in DOMAIN V.style_classes :
              /\ FLeq(V.style_classes[i].min, V.style_classes[i].max)
              /\ i > 1 => FLeq(V.style_classes[i - 1].max,
                               V.style_classes[i].max)
        /\ V.style_classes[8].max =
              FMax({V.data[p][target_field] : p \in DOMAIN V.data})

\* a returned layer whose polygons differ in population
C8_Witness ==
    /\ VolcanoReturned
    /\ V.style_classes[1].max # V.style_classes[8].max

\* a volcano call has ended
VolcanoRan == loaded = "volcano" /\ (err # "none" \/ V # NoLayer)

NoPopulationLayer ==
    \A i \in DOMAIN layers :
        layers[i].keywords["category"] = "exposure" =>
            /\ "datatype" \in DOMAIN layers[i].keywords
            /\ ContainsRatio(layers[i].keywords["datatype"])

BadRatioUnit ==
    \E i \in DOMAIN layers :
        /\ layers[i].keywords["category"] = "exposure"
        /\ "datatype" \in DOMAIN layers[i].keywords
        /\ ContainsRatio(layers[i].keywords["datatype"])
        /\ layers[i].keywords["unit"] \notin {"percent", "ratio"}

\* C9: every contract violation ends the run with an error and without a
\* result layer: no population layer or a bad gender-ratio unit in the
\* flood run; a non-vector hazard, a geometry that is neither polygon nor
\* point, or a missing category attribute in the volcano run, the last
\* with InaSAFEError and before the spatial join.
C9_ViolationsAbort ==
    /\ (loaded = "flood" /\ runs > 0) =>
          /\ NoPopulationLayer => err = "RuntimeError" /\ R = NoLayer
          /\ BadRatioUnit => err = "RuntimeError" /\ R = NoLayer
    /\ VolcanoRan =>
          /\ ~H.is_vector => err = "Exception" /\ V = NoLayer
          /\ (H.is_vector /\ H.geometry \notin {"polygon", "point"})
                => err = "Exception" /\ V = NoLayer
          /\ (H.is_vector /\ H.geometry = "polygon"
              /\ \E p \in DOMAIN H.data : "KRB" \notin DOMAIN H.data[p])
                => err = "InaSAFEError" /\ V = NoLayer /\ ~rep.join_ran

\* a flood call on a population layer and a gender-ratio layer whose unit
\* is neither 'percent' nor 'ratio'
C9_Witness ==
    /\ loaded = "flood"
    /\ runs > 0
    /\ BadRatioUnit
    /\ ~NoPopulationLayer

\* C10 as claimed: a run changes neither its input layers nor the
\* module-level style dictionary, and a run that follows one that returned
\* a layer returns the same layer.
C10_RunsShareNoState ==
    [][/\ H' = H
       /\ E' = E
       /\ layers' = layers
       /\ style_info' = style_info
       /\ V # NoLayer => V' = V
       /\ R # NoLayer => R' = R]_vars

\* a flood run that found a gender-ratio layer has just returned
GenderRunStep ==
    /\ loaded = "flood"
    /\ runs' = runs + 1
    /\ R' # NoLayer
    /\ frep'.gender_ratio # 0

\* the grid of the gender-ratio layer as the run read it, no data as 0
RatioRead(i) ==
    IF IsNaN(layers[frep'.gender_ratio].data[i]) THEN Zero
    ELSE layers[frep'.gender_ratio].data[i]

\* C11 as claimed: in a flood run with a gender-ratio layer the ratio the
\* run works with is the layer's value divided by 100 when the unit is
\* 'percent' and the layer's value when the unit is 'ratio'; in every cell
\* the female and male populations add up to the population and the female
\* and male affected add up to the impact.
C11_GenderBreakdown ==
    [][GenderRunStep =>
          /\ layers[frep'.gender_ratio].keywords["unit"]
                \in {"percent", "ratio"}
          /\ frep'.gender_ratio_unit
                = layers[frep'.gender_ratio].keywords["unit"]
          /\ \A i \in DOMAIN frep'.G :
                /\ frep'.gender_ratio_unit = "percent" =>
                      frep'.G[i] = FDiv(RatioRead(i), Float(100))
                /\ frep'.gender_ratio_unit = "ratio" =>
                      frep'.G[i] = RatioRead(i)
                /\ frep'.P_female[i] = FMul(frep'.P[i], frep'.G[i])
                /\ frep'.I_female[i] = FMul(frep'.I[i], frep'.G[i])
                /\ FAdd(frep'.P_female[i], frep'.P_male[i]) = frep'.P[i]
                /\ FAdd(frep'.I_female[i], frep'.I_male[i]) = frep'.I[i]
                /\ frep'.I[i] = R'.data[i]]_vars

\* the double next above a positive double, and the one next below
FAbove(x) == Round(1, NAdd(x[4], <<1>>), x[3], FALSE)

FBelow(x) ==
    IF NBitLen(NSub(x[4], <<1>>)) = 52 /\ x[3] > -1074
    THEN Round(1, NSub(NShl(x[4], 1), <<1>>), x[3] - 1, FALSE)
    ELSE Round(1, NSub(x[4], <<1>>), x[3], FALSE)

\* y is the double x >= 0 or one of the two doubles next to it
WithinOneStep(y, x) ==
    \/ y = x
    \/ FLess(Zero, x) /\ y \in {FAbove(x), FBelow(x)}

\* C11: in a flood run with a gender-ratio layer the ratio the run works
\* with is the layer's value divided by 100 when the unit is 'percent' and
\* the layer's value when the unit is 'ratio'; in every cell the female
\* part is the product with the ratio and the male part is the whole minus
\* the female part, so that for a ratio between 0 and 1 female and male
\* population add up to the population, and female and male affected to the
\* impact, to within one rounding step of the double arithmetic.
C11_GenderBreakdownRounded ==
    [][GenderRunStep =>
          /\ layers[frep'.gender_ratio].keywords["unit"]
                \in {"percent", "ratio"}
          /\ frep'.gender_ratio_unit
                = layers[frep'.gender_ratio].keywords["unit"]
          /\ \A i \in DOMAIN frep'.G :
                /\ frep'.gender_ratio_unit = "percent" =>
                      frep'.G[i] = FDiv(RatioRead(i), Float(100))
                /\ frep'.gender_ratio_unit = "ratio" =>
                      frep'.G[i] = RatioRead(i)
                /\ frep'.P_female[i] = FMul(frep'.P[i], frep'.G[i])
                /\ frep'.I_female[i] = FMul(frep'.I[i], frep'.G[i])
                /\ frep'.P_male[i] = FSub(frep'.P[i], frep'.P_female[i])
                /\ frep'.I_male[i] = FSub(frep'.I[i], frep'.I_female[i])
                /\ (FLeq(Zero, frep'.G[i]) /\ FLeq(frep'.G[i], Float(1))) =>
                      /\ WithinOneStep(FAdd(frep'.P_female[i],
                                            frep'.P_male[i]), frep'.P[i])
                      /\ WithinOneStep(FAdd(frep'.I_female[i],
                                            frep'.I_male[i]), frep'.I[i])
                /\ frep'.I[i] = R'.data[i]]_vars

\* a legacy run on a layer holding the ratio 0.45 and a cell of density 19:
\* female and male population are 8.55 and 10.45 and add up to 19; the
\* impact is 0.47500000000000003, and its two parts add up to 0.475, the
\* double next below it
C11_Witness ==
    /\ FloodReturned
    /\ frep.gender_ratio # 0
    /\ frep.gender_ratio_unit = "ratio"
    /\ frep.legacy
    /\ runs = 1
    /\ frep.G[1] = Rat(9, 20)
    /\ frep.P[1] = Float(19)
    /\ FAdd(frep.P_female[1], frep.P_male[1]) = Float(19)
    /\ frep.I[1] = FMul(FDiv(Float(19), Float(100000)), Float(pixel_area))
    /\ FAdd(frep.I_female[1], frep.I_male[1]) = Rat(475, 1000)
    /\ Rat(475, 1000) = FBelow(frep.I[1])

\* the sum of the entries of a sequence of numbers
Total(s) == FSum(s, Len(s))

\* the populations of the joined samples, those outside a polygon as 0
SamplesOfPolygon(p) ==
    [k \in DOMAIN rep.P |->
        IF rep.P[k].polygon_id = p THEN rep.P[k].population ELSE Zero]

\* the populations of the joined samples, those outside a category as 0
SamplesOfCategory(cat) ==
    [k \in DOMAIN rep.P |->
        IF rep.new_attributes[rep.P[k].polygon_id][rep.category_title] = cat
        THEN rep.P[k].population ELSE Zero]

\* the populations of the exposure cells whose innermost (first) zone is p
CellsFirstIn(p) ==
    [c \in DOMAIN E |->
        IF geo[c] # {} /\ (\A q \in geo[c] : p <= q) /\ p \in geo[c]
        THEN E[c] ELSE Zero]

PolygonTotals ==
    [p \in DOMAIN rep.new_attributes |-> rep.new_attributes[p][target_field]]

RECURSIVE CategoryTotals(_)
CategoryTotals(S) ==
    IF S = {} THEN Zero
    ELSE FAdd(rep.categories[CHOOSE c \in S : TRUE],
              CategoryTotals(S \ {CHOOSE c \in S : TRUE}))

\* C12 as claimed: every joined sample is added to the total of the polygon
\* its polygon_id names and to the total of that polygon's category and to
\* no other, so the per-polygon totals, the category totals and the samples
\* have the same sum; a cell inside several zones is counted in the
\* innermost one only.
C12_EachSampleCountedOnce ==
    rep.aggregated =>
        /\ \A p \in DOMAIN rep.new_attributes :
              /\ rep.new_attributes[p][target_field] = Total(SamplesOfPolygon(p))
              /\ rep.new_attributes[p][target_field] = Total(CellsFirstIn(p))
        /\ \A cat \in DOMAIN rep.categories :
              rep.categories[cat] = Total(SamplesOfCategory(cat))
        /\ Total(PolygonTotals) = CategoryTotals(DOMAIN rep.categories)
        /\ Total(PolygonTotals) =
              Total([k \in DOMAIN rep.P |-> rep.P[k].population])
        /\ Len(rep.P) = Cardinality({c \in DOMAIN E : geo[c] # {}})

\* x is a whole number
IsWhole(x) ==
    /\ x[1] = "num"
    /\ IsZero(x) \/ x[3] >= 0 \/ NLowZero(x[4], -x[3])

\* C12: every joined sample is added to the total of the polygon its
\* polygon_id names and to the total of that polygon's category and to no
\* other: each total is the sum, in sample order, of exactly its samples,
\* and a cell inside several zones is counted in the innermost one only;
\* when the populations are whole numbers the per-polygon totals, the
\* category totals and the samples have the same sum.
C12_EachSampleCountedOnceWhole ==
    rep.aggregated =>
        /\ \A p \in DOMAIN rep.new_attributes :
              /\ rep.new_attributes[p][target_field] = Total(SamplesOfPolygon(p))
              /\ rep.new_attributes[p][target_field] = Total(CellsFirstIn(p))
        /\ \A cat \in DOMAIN rep.categories :
              rep.categories[cat] = Total(SamplesOfCategory(cat))
        /\ Len(rep.P) = Cardinality({c \in DOMAIN E : geo[c] # {}})
        /\ (\A k \in DOMAIN rep.P : IsWhole(rep.P[k].population)) =>
              /\ Total(PolygonTotals) = CategoryTotals(DOMAIN rep.categories)
              /\ Total(PolygonTotals) =
                    Total([k \in DOMAIN rep.P |-> rep.P[k].population])

\* a point hazard and whole numbers of people: a cell inside every circle,
\* a cell inside the two wider circles and a cell inside the widest circle
\* only; each is counted in its innermost circle and not again further out,
\* and the totals add up to the 3700 people of the samples
C12_Witness ==
    /\ rep.aggregated
    /\ rep.category_title = "Radius"
    /\ \A k \in DOMAIN rep.P : IsWhole(rep.P[k].population)
    /\ geo = <<{1, 2, 3}, {2, 3}, {3}>>
    /\ rep.categories[3000] = Float(1500)
    /\ rep.categories[5000] = Float(700)
    /\ rep.categories[10000] = Float(1500)
    /\ Len(rep.P) = 3
    /\ Total(PolygonTotals) = Float(3700)

====
